---- MODULE Spec2Model ----
(***************************************************************************)
(* Model of the tick-capture job scheduler: the job store (db/database.py),*)
(* the writer (app.py) and the subscription reconciler                     *)
(* (components/subscriptionhandler.py) driving a vendor feed session.      *)
(***************************************************************************)
EXTENDS Integers, Sequences, FiniteSets, TLC

VARIABLES
    \* ---- job store (committed rows of ./db/tickcapturejobs.db)
    jobs,                 \* job_id -> row of jobs joined with instruments/fields
    next_job_id,          \* the id the next insert_job receives (cursor.lastrowid)
    update_flag,          \* metadata.value WHERE key = 'update_flag'
    \* ---- wall clock
    clock,                \* time.time()
    \* ---- class SubscriptionHandler (singleton state and constructor calls)
    instance,             \* cls._instance: 0 is None, n > 0 the n-th object created
    initialized,          \* cls._instance._initialized
    sessions_created,     \* number of bp.Session objects created and started
    threads_started,      \* number of SubscriptionManagerThread threads started
    cpc,                  \* caller thread -> position inside SubscriptionHandler(config)
    ret,                  \* caller thread -> object returned by __new__ (0: none yet)
    \* ---- fields of the SubscriptionHandler object
    subscription_list,    \* self._subscription_list (a bp.SubscriptionList)
    active_instruments,   \* self._active_instruments: instrument -> SubscriptionItem
    active_subscriptions, \* self.active_subscriptions: dict job_id -> [instrument]
    job_cache,            \* self.job_cache: job_id -> job
    last_cache_update,    \* self.last_cache_update
    stop_event,           \* self.stop_event.is_set()
    \* ---- the polling thread running manage_subscriptions
    pc,                   \* position of the thread in manage_subscriptions
    current_time,         \* local current_time of the running tick
    todo,                 \* job ids the running for-loop has still to visit
    \* ---- feed session (bp.Session), seen through subscribe/unsubscribe
    feed_live,            \* correlation ids with a live subscription
    feed_log,             \* every subscribe/unsubscribe call issued, in order
    \* ---- the thread calling SubscriptionHandler.stop
    spc,                  \* position of that thread inside stop()
    \* ---- sqlite3 connections of the Database objects
    local_conn,           \* (Database, thread) -> the thread-local attribute conn
    connections,          \* connection handle -> creator, open or closed, users
    \* ---- the writer thread inside app.insert_data / app.delete_selected_jobs
    writer,               \* its position and the arguments of the running call
    txn_jobs              \* the job rows as the writer's connection sees them:
                          \* the committed rows and its own uncommitted changes

store_vars == <<jobs, next_job_id, update_flag>>
ctor_vars == <<instance, initialized, sessions_created, threads_started, cpc, ret>>
registry_vars == <<subscription_list, active_instruments, active_subscriptions,
                   feed_live, feed_log>>
loop_vars == <<job_cache, last_cache_update, stop_event, pc, current_time, todo>>
conn_vars == <<local_conn, connections>>
writer_vars == <<writer, txn_jobs>>
vars == <<store_vars, clock, ctor_vars, registry_vars, loop_vars, spc, conn_vars,
          writer_vars>>

----------------------------------------------------------------------------
\* Bounds of the model

MaxJobs == 2          \* rows the writer inserts in one run
ClockStart == 100     \* time.time() when the model starts (any instant past the interval)
Horizon == 70         \* seconds of wall clock the model follows
NumCallers == 2       \* threads calling SubscriptionHandler(config)
MaxConns == 2         \* connections one thread opens on one Database object
MaxCalls == 3         \* feed calls issued when the registry is taken alone

\* Program constants
cache_update_interval == 60
SleepSeconds == 5
SecondsPerMinute == 60

JobIds == 1..MaxJobs
Callers == 1..NumCallers

\* Inputs of the writer: instrument lists, field lists, start instants and
\* window lengths (job_enddatetime - job_startdatetime) in seconds.
InstrumentChoices == {<<"X", "Y">>, <<"Y", "Z">>}
FieldChoices == {<<"BID">>}
StartChoices == {ClockStart, ClockStart + 30}
LengthChoices == {60}

\* Window lengths in seconds for the store taken alone: below a minute, whole
\* minutes, and a minute and a half.
LengthsInSeconds == {30, 60, 90, 120}

Range(s) == {s[i] : i \in DOMAIN s}

----------------------------------------------------------------------------
\* Python dict with insertion order: a sequence of <<key, value>> pairs.

Keys(d) == {d[i][1] : i \in DOMAIN d}

Get(d, k) == d[CHOOSE i \in DOMAIN d : d[i][1] = k][2]

KeyList(d) == [i \in DOMAIN d |-> d[i][1]]

DictSet(d, k, v) ==
    IF k \in Keys(d)
    THEN [i \in DOMAIN d |-> IF d[i][1] = k THEN <<k, v>> ELSE d[i]]
    ELSE Append(d, <<k, v>>)

DictDel(d, k) == SelectSeq(d, LAMBDA p : p[1] # k)

\* dict whose iteration order is never used: a function.
MapSet(f, k, v) == [x \in DOMAIN f \cup {k} |-> IF x = k THEN v ELSE f[x]]

MapDel(f, k) == [x \in DOMAIN f \ {k} |-> f[x]]

----------------------------------------------------------------------------
\* Job store: db/database.py

\* int((job_enddatetime - job_startdatetime) / 60): the stored duration, in minutes
DurationMinutes(job_startdatetime, job_enddatetime) ==
    (job_enddatetime - job_startdatetime) \div SecondsPerMinute

\* the row insert_job/insert_instruments/insert_fields leave for one job
JobRow(job_startdatetime, job_enddatetime, instruments, fields) ==
    [job_startdatetime |-> job_startdatetime,
     duration |-> DurationMinutes(job_startdatetime, job_enddatetime),
     instruments |-> instruments,
     fields |-> fields]

\* j.job_startdatetime + j.duration * 60 as job_enddatetime
RowEnd(row) == row.job_startdatetime + row.duration * SecondsPerMinute

\* the window test with the end instant included
InWindowInclusive(row, t) == row.job_startdatetime <= t /\ RowEnd(row) >= t

\* WHERE j.job_startdatetime <= ? AND j.job_startdatetime + j.duration * 60 > ?
InWindow(row, t) == row.job_startdatetime <= t /\ RowEnd(row) > t

\* GROUP_CONCAT(DISTINCT name) followed by split(','): the distinct names, in
\* order of first appearance; NULL (no row) gives [].
RECURSIVE Distinct(_)
Distinct(s) ==
    IF s = <<>> THEN <<>>
    ELSE LET front == Distinct(SubSeq(s, 1, Len(s) - 1))
             last == s[Len(s)]
         IN IF last \in Range(front) THEN front ELSE Append(front, last)

\* one dict of the list query_active_jobs returns
JobDict(rows, id) ==
    [id |-> id,
     job_startdatetime |-> rows[id].job_startdatetime,
     job_enddatetime |-> RowEnd(rows[id]),
     instruments |-> Distinct(rows[id].instruments),
     fields |-> Distinct(rows[id].fields)]

\* query_active_jobs(current_time), keyed by job id as update_job_cache keeps it
query_active_jobs(rows, t) ==
    [id \in {j \in DOMAIN rows : InWindow(rows[j], t)} |-> JobDict(rows, id)]

----------------------------------------------------------------------------
\* Connections: Database.conn and Database.close.  A Database object keeps its
\* sqlite3 connection in a threading.local, so each (Database, thread) pair
\* has its own attribute slot.  A handle is named by the slot that received it
\* and the number of connections made for that slot: sqlite3.connect returns
\* a new object each time.

Threads == {"writer", "loop", "main"}

\* db of app.py and self.db of the SubscriptionHandler
Databases == {"app", "handler"}

\* the attribute kept on one thread's slot for every thread
SlotOfOneThread(db, t) == <<db, CHOOSE x \in Threads : TRUE>>

\* self._local, as seen by thread t
LocalSlot(db, t) == <<db, t>>

\* hasattr(self._local, 'conn')
HasConn(db, t) == local_conn[LocalSlot(db, t)].cur # 0

\* self._local.conn
ConnOf(db, t) == <<LocalSlot(db, t), local_conn[LocalSlot(db, t)].cur>>

\* the conn property read by thread t for a query or a command
UseConn(db, t) ==
    LET slot == LocalSlot(db, t)
        made == local_conn[slot].made
    IN IF ~HasConn(db, t)
       THEN /\ local_conn' = [local_conn EXCEPT
                                 ![slot] = [cur |-> made + 1, made |-> made + 1]]
            /\ connections' =
                   MapSet(connections, <<slot, made + 1>>,
                          [creator |-> t, open |-> TRUE, users |-> {t}])
       ELSE /\ UNCHANGED local_conn
            /\ connections' =
                   [connections EXCEPT ![ConnOf(db, t)].users = @ \cup {t}]

\* Database.close() called by thread t
close(db, t) ==
    IF HasConn(db, t)
    THEN /\ connections' = [connections EXCEPT ![ConnOf(db, t)].open = FALSE]
         /\ local_conn' = [local_conn EXCEPT ![LocalSlot(db, t)].cur = 0]
    ELSE UNCHANGED conn_vars

\* Database(db_path): a new object, whose threading.local holds no connection
\* (the names of the connections made for the old object stay taken)
NewDatabase(db) ==
    /\ local_conn' = [s \in DOMAIN local_conn |->
                         IF s[1] = db THEN [local_conn[s] EXCEPT !.cur = 0]
                         ELSE local_conn[s]]
    /\ UNCHANGED connections

----------------------------------------------------------------------------
\* Feed session: bp.Session.subscribe / unsubscribe.  A call either returns,
\* and then changes the live subscriptions, or raises.

SubscriptionItem(instrument, jobid) == [instrument |-> instrument, jobid |-> jobid]

\* one entry of a bp.SubscriptionList
ListEntry(topic, fields, sub_item) ==
    [topic |-> topic, fields |-> fields, correlationId |-> sub_item]

CorrelationIds(list) == {list[i].correlationId : i \in DOMAIN list}

Topics(list) == {list[i].topic : i \in DOMAIN list}

Call(op, list, ok) == [op |-> op, batch |-> list, ok |-> ok]

\* The registry and the feed as one record, handed through the operations.
Registry ==
    [subscription_list |-> subscription_list,
     active_instruments |-> active_instruments,
     active_subscriptions |-> active_subscriptions,
     feed_live |-> feed_live,
     feed_log |-> feed_log,
     raised |-> FALSE]

session_subscribe(r, list, ok) ==
    IF ok
    THEN [r EXCEPT !.feed_live = @ \cup CorrelationIds(list),
                   !.feed_log = Append(@, Call("subscribe", list, TRUE))]
    ELSE [r EXCEPT !.feed_log = Append(@, Call("subscribe", list, FALSE)),
                   !.raised = TRUE]

session_unsubscribe(r, list, ok) ==
    IF ok
    THEN [r EXCEPT !.feed_live = @ \ CorrelationIds(list),
                   !.feed_log = Append(@, Call("unsubscribe", list, TRUE))]
    ELSE [r EXCEPT !.feed_log = Append(@, Call("unsubscribe", list, FALSE)),
                   !.raised = TRUE]

----------------------------------------------------------------------------
\* SubscriptionHandler.start_subscription

\* the membership test of start_subscription always succeeding
NotYetActiveAlways(r, instrument) == TRUE

\* if instrument not in self._active_instruments
NotYetActive(r, instrument) == instrument \notin DOMAIN r.active_instruments

\* the for-loop over job['instruments'], from position i
RECURSIVE AddInstruments(_, _, _)
AddInstruments(r, job, i) ==
    IF i > Len(job.instruments) THEN r
    ELSE LET instrument == job.instruments[i]
             sub_item == SubscriptionItem(instrument, job.id)
             r1 == IF NotYetActive(r, instrument)
                   THEN [r EXCEPT
                           !.subscription_list =
                               Append(@, ListEntry(instrument, job.fields, sub_item)),
                           !.active_instruments = MapSet(@, instrument, sub_item)]
                   ELSE r
         IN AddInstruments(r1, job, i + 1)

\* if job_instruments: (every instrument of the job was appended to it)
SubscribeNeeded(job_instruments) == job_instruments # <<>>

\* start_subscription(job); feed_ok tells whether session.subscribe returns
start_subscription(r, job, feed_ok) ==
    LET job_instruments == job.instruments
        r1 == AddInstruments(r, job, 1)
        r2 == IF SubscribeNeeded(job_instruments)
              THEN session_subscribe(r1, r1.subscription_list, feed_ok)
              ELSE r1
    IN IF r2.raised THEN r2
       ELSE [r2 EXCEPT !.active_subscriptions = DictSet(@, job.id, job_instruments)]

----------------------------------------------------------------------------
\* SubscriptionHandler.stop_subscription

\* used_by_others without the reference count: no other job is looked at
used_by_others_unchecked(r, job_id, instrument) == FALSE

\* any(instrument in job_instruments for jid, job_instruments in
\*     self.active_subscriptions.items() if jid != job_id)
used_by_others(r, job_id, instrument) ==
    \E i \in DOMAIN r.active_subscriptions :
        /\ r.active_subscriptions[i][1] # job_id
        /\ instrument \in Range(r.active_subscriptions[i][2])

\* the for-loop over the job's instruments, from position i; looking up an
\* instrument missing from self._active_instruments raises KeyError
RECURSIVE CollectUnsubscribe(_, _, _, _)
CollectUnsubscribe(s, job_id, instruments, i) ==
    IF i > Len(instruments) \/ s.reg.raised THEN s
    ELSE LET instrument == instruments[i]
             s1 == IF used_by_others(s.reg, job_id, instrument) THEN s
                   ELSE IF instrument \notin DOMAIN s.reg.active_instruments
                   THEN [s EXCEPT !.reg.raised = TRUE]
                   ELSE [reg |-> [s.reg EXCEPT !.active_instruments =
                                                   MapDel(@, instrument)],
                         to_unsubscribe |->
                             Append(s.to_unsubscribe,
                                    s.reg.active_instruments[instrument])]
         IN CollectUnsubscribe(s1, job_id, instruments, i + 1)

\* unsub_list built from to_unsubscribe
UnsubList(to_unsubscribe) ==
    [i \in DOMAIN to_unsubscribe |->
        ListEntry(to_unsubscribe[i].instrument, <<>>, to_unsubscribe[i])]

\* stop_subscription(job_id); feed_ok tells whether session.unsubscribe returns
stop_subscription(r, job_id, feed_ok) ==
    IF job_id \notin Keys(r.active_subscriptions) THEN r
    ELSE LET instruments == Get(r.active_subscriptions, job_id)
             s == CollectUnsubscribe([reg |-> r, to_unsubscribe |-> <<>>],
                                     job_id, instruments, 1)
             r2 == IF s.reg.raised THEN s.reg
                   ELSE IF s.to_unsubscribe # <<>>
                   THEN session_unsubscribe(s.reg, UnsubList(s.to_unsubscribe), feed_ok)
                   ELSE s.reg
         IN IF r2.raised THEN r2
            ELSE [r2 EXCEPT !.active_subscriptions = DictDel(@, job_id)]

\* the registry record written back to the object's fields
SetRegistry(r) ==
    /\ subscription_list' = r.subscription_list
    /\ active_instruments' = r.active_instruments
    /\ active_subscriptions' = r.active_subscriptions
    /\ feed_live' = r.feed_live
    /\ feed_log' = r.feed_log

----------------------------------------------------------------------------
\* Writer: app.py

\* app.insert_data: db.insert_data(...) then db.set_update_flag(), whose commit
\* is the only one; the form refuses a start in the past and an end not after
\* the start.
InsertData(lengths) ==
    /\ \E job_startdatetime \in StartChoices, length \in lengths,
          instruments \in InstrumentChoices, fields \in FieldChoices :
          /\ job_startdatetime >= clock
          /\ length > 0
          /\ jobs' = MapSet(jobs, next_job_id,
                            JobRow(job_startdatetime, job_startdatetime + length,
                                   instruments, fields))
    /\ next_job_id' = next_job_id + 1
    /\ update_flag' = 1
    /\ txn_jobs' = jobs'
    /\ UseConn("app", "writer")
    /\ UNCHANGED <<writer, spc, clock, ctor_vars, registry_vars, loop_vars>>

\* the form of app.py, whose windows are whole minutes
AppInsertData ==
    /\ next_job_id <= MaxJobs
    /\ InsertData(LengthChoices)

\* app.delete_selected_jobs(job_ids): db.delete_job for each, then set_update_flag
AppDeleteJobs ==
    /\ \E job_ids \in SUBSET (DOMAIN jobs) :
          /\ job_ids # {}
          /\ jobs' = [id \in DOMAIN jobs \ job_ids |-> jobs[id]]
    /\ update_flag' = 1
    /\ txn_jobs' = jobs'
    /\ UseConn("app", "writer")
    /\ UNCHANGED <<writer, spc, next_job_id, clock, ctor_vars, registry_vars, loop_vars>>

----------------------------------------------------------------------------
\* Polling thread: SubscriptionHandler.manage_subscriptions and its helpers

\* the ids of the rows a query returns, in the order it returns them:
\* GROUP BY j.job_id makes SQLite emit the groups sorted by job_id
RECURSIVE SortedIds(_)
SortedIds(ids) ==
    IF ids = {} THEN <<>>
    ELSE LET least == CHOOSE x \in ids : \A y \in ids : x <= y
         IN <<least>> \o SortedIds(ids \ {least})

\* update_job_cache(t): self.job_cache = {job['id']: job for job in jobs}
update_job_cache(t) ==
    /\ job_cache' = LET rows == query_active_jobs(jobs, t)
                        order == SortedIds(DOMAIN rows)
                    IN [i \in DOMAIN order |-> <<order[i], rows[order[i]]>>]
    /\ last_cache_update' = t

\* the while-test never seeing the signal
StopNeverSeen == FALSE

\* self.stop_event.is_set()
StopSignalled == stop_event

\* while not self.stop_event.is_set(): current_time = time.time()
LoopTest ==
    /\ pc = "loop"
    /\ IF StopSignalled
       THEN pc' = "exited" /\ UNCHANGED current_time
       ELSE pc' = "check" /\ current_time' = clock
    /\ UNCHANGED <<writer_vars, spc, conn_vars, store_vars, clock, ctor_vars, registry_vars,
                   job_cache, last_cache_update, stop_event, todo>>

\* check_for_updates: if self.db.check_update_flag()
CheckFlag ==
    /\ pc = "check"
    /\ pc' = IF update_flag = 1 THEN "refresh" ELSE "periodic"
    /\ UseConn("handler", "loop")
    /\ UNCHANGED <<writer_vars, spc, store_vars, clock, ctor_vars, registry_vars,
                   job_cache, last_cache_update, stop_event, current_time, todo>>

\* check_for_updates: self.update_job_cache(time.time())
FlagRefresh ==
    /\ pc = "refresh"
    /\ update_job_cache(clock)
    /\ UseConn("handler", "loop")
    /\ pc' = "clear"
    /\ UNCHANGED <<writer_vars, spc, store_vars, clock, ctor_vars, registry_vars,
                   stop_event, current_time, todo>>

\* check_for_updates: self.db.clear_update_flag()
ClearFlag ==
    /\ pc = "clear"
    /\ update_flag' = 0
    /\ UseConn("handler", "loop")
    /\ pc' = "periodic"
    /\ UNCHANGED <<writer_vars, spc, jobs, next_job_id, clock, ctor_vars, registry_vars,
                   job_cache, last_cache_update, stop_event, current_time, todo>>

\* the periodic test never succeeding
RefreshNeverDue(now, last) == FALSE

\* the periodic test always succeeding
RefreshAlwaysDue(now, last) == TRUE

\* if current_time - self.last_cache_update > self.cache_update_interval
RefreshDue(now, last) == now - last > cache_update_interval

\* the periodic refresh, then entry into the first for-loop
PeriodicRefresh ==
    /\ pc = "periodic"
    /\ IF RefreshDue(current_time, last_cache_update)
       THEN update_job_cache(current_time) /\ UseConn("handler", "loop")
       ELSE UNCHANGED <<job_cache, last_cache_update, conn_vars>>
    /\ todo' = job_cache'
    /\ pc' = "activate"
    /\ UNCHANGED <<writer_vars, spc, store_vars, clock, ctor_vars, registry_vars,
                   stop_event, current_time>>

\* the first for-loop without its membership test
NeedsStartAlways(r, job_id) == TRUE

\* if job_id not in self.active_subscriptions
NeedsStart(r, job_id) == job_id \notin Keys(r.active_subscriptions)

\* the second for-loop never finding a job to stop
NeedsStopNever(cache, job_id) == FALSE

\* if job_id not in self.job_cache
NeedsStop(cache, job_id) == job_id \notin Keys(cache)

\* one iteration of: for job_id, job in self.job_cache.items()
Activate ==
    /\ pc = "activate"
    /\ todo # <<>>
    /\ LET job_id == Head(todo)[1]
           job == Head(todo)[2]
       IN IF NeedsStart(Registry, job_id)
          THEN \E feed_ok \in BOOLEAN :
                  LET r == start_subscription(Registry, job, feed_ok)
                  IN /\ SetRegistry(r)
                     /\ pc' = IF r.raised THEN "crashed" ELSE "activate"
          ELSE UNCHANGED <<registry_vars, pc>>
    /\ todo' = Tail(todo)
    /\ UNCHANGED <<writer_vars, spc, conn_vars, store_vars, clock, ctor_vars,
                   job_cache, last_cache_update, stop_event, current_time>>

\* end of the first for-loop: list(self.active_subscriptions.keys())
ActivateDone ==
    /\ pc = "activate"
    /\ todo = <<>>
    /\ todo' = active_subscriptions
    /\ pc' = "deactivate"
    /\ UNCHANGED <<writer_vars, spc, conn_vars, store_vars, clock, ctor_vars, registry_vars,
                   job_cache, last_cache_update, stop_event, current_time>>

\* one iteration of: for job_id in list(self.active_subscriptions.keys())
Deactivate ==
    /\ pc = "deactivate"
    /\ todo # <<>>
    /\ LET job_id == Head(todo)[1]
       IN IF NeedsStop(job_cache, job_id)
          THEN \E feed_ok \in BOOLEAN :
                  LET r == stop_subscription(Registry, job_id, feed_ok)
                  IN /\ SetRegistry(r)
                     /\ pc' = IF r.raised THEN "crashed" ELSE "deactivate"
          ELSE UNCHANGED <<registry_vars, pc>>
    /\ todo' = Tail(todo)
    /\ UNCHANGED <<writer_vars, spc, conn_vars, store_vars, clock, ctor_vars,
                   job_cache, last_cache_update, stop_event, current_time>>

\* end of the second for-loop
DeactivateDone ==
    /\ pc = "deactivate"
    /\ todo = <<>>
    /\ pc' = "sleep"
    /\ UNCHANGED <<writer_vars, spc, conn_vars, store_vars, clock, ctor_vars, registry_vars,
                   job_cache, last_cache_update, stop_event, current_time, todo>>

\* time.sleep(5)
Sleep ==
    /\ pc = "sleep"
    /\ clock + SleepSeconds <= ClockStart + Horizon
    /\ clock' = clock + SleepSeconds
    /\ pc' = "loop"
    /\ UNCHANGED <<writer_vars, spc, conn_vars, store_vars, ctor_vars, registry_vars,
                   job_cache, last_cache_update, stop_event, current_time, todo>>

Loop ==
    \/ LoopTest
    \/ CheckFlag
    \/ FlagRefresh
    \/ ClearFlag
    \/ PeriodicRefresh
    \/ Activate
    \/ ActivateDone
    \/ Deactivate
    \/ DeactivateDone
    \/ Sleep

----------------------------------------------------------------------------
\* The running system: one handler constructed, its polling thread started.

\* the writer is in no call and has no transaction open
WriterIdle ==
    /\ writer = [pc |-> "idle"]
    /\ txn_jobs = jobs

\* no thread has used a Database object yet
NoConnections ==
    /\ local_conn = [s \in Databases \X Threads |-> [cur |-> 0, made |-> 0]]
    /\ connections = <<>>

ObjectFields ==
    /\ subscription_list = <<>>
    /\ active_instruments = <<>>
    /\ active_subscriptions = <<>>
    /\ job_cache = <<>>
    /\ last_cache_update = 0
    /\ stop_event = FALSE

Init ==
    /\ jobs = <<>>
    /\ next_job_id = 1
    /\ update_flag = 0
    /\ clock = ClockStart
    /\ instance = 1
    /\ initialized = TRUE
    /\ sessions_created = 1
    /\ threads_started = 1
    /\ cpc = [t \in Callers |-> "idle"]
    /\ ret = [t \in Callers |-> IF t = 1 THEN 1 ELSE 0]
    /\ ObjectFields
    /\ pc = "loop"
    /\ current_time = 0
    /\ todo = <<>>
    /\ feed_live = {}
    /\ feed_log = <<>>
    /\ spc = "idle"
    /\ NoConnections
    /\ WriterIdle

Next ==
    \/ AppInsertData
    \/ AppDeleteJobs
    \/ Loop

Spec == Init /\ [][Next]_vars

----------------------------------------------------------------------------
\* Construction: SubscriptionHandler(config_path) called by the threads of
\* Callers; each statement group of __init__ is one step, the body of __new__
\* one step under cls._lock.

SetCpc(t, position) == cpc' = [cpc EXCEPT ![t] = position]

\* a thread evaluates SubscriptionHandler(config_path)
CallConstructor(t) ==
    /\ cpc[t] \in {"idle", "returned", "raised"}
    /\ SetCpc(t, "new")
    /\ ret' = [ret EXCEPT ![t] = 0]
    /\ UNCHANGED <<writer_vars, spc, conn_vars, store_vars, clock, instance, initialized, sessions_created,
                   threads_started, registry_vars, loop_vars>>

\* __new__: with cls._lock: create the object if cls._instance is None
New(t) ==
    /\ cpc[t] = "new"
    /\ IF instance = 0
       THEN instance' = instance + 1 /\ initialized' = FALSE
       ELSE UNCHANGED <<instance, initialized>>
    /\ ret' = [ret EXCEPT ![t] = instance']
    /\ SetCpc(t, "init_check")
    /\ UNCHANGED <<writer_vars, spc, conn_vars, store_vars, clock, sessions_created, threads_started,
                   registry_vars, loop_vars>>

\* __init__ without its guard
NeverInitialized == FALSE

\* if self._initialized: return
AlreadyInitialized == initialized

InitCheck(t) ==
    /\ cpc[t] = "init_check"
    /\ SetCpc(t, IF AlreadyInitialized THEN "returned" ELSE "init_reset")
    /\ UNCHANGED <<writer_vars, spc, conn_vars, store_vars, clock, instance, initialized, sessions_created,
                   threads_started, ret, registry_vars, loop_vars>>

\* self._session = None ... self._active_instruments = {}
InitReset(t) ==
    /\ cpc[t] = "init_reset"
    /\ subscription_list' = <<>>
    /\ active_instruments' = <<>>
    /\ SetCpc(t, "init_config")
    /\ UNCHANGED <<writer_vars, spc, conn_vars, store_vars, clock, instance, initialized, sessions_created,
                   threads_started, ret, active_subscriptions, feed_live,
                   feed_log, loop_vars>>

\* loading the configuration and building the session options: may raise
InitConfig(t) ==
    /\ cpc[t] = "init_config"
    /\ \E config_ok \in BOOLEAN :
          SetCpc(t, IF config_ok THEN "init_session" ELSE "raised")
    /\ UNCHANGED <<writer_vars, spc, conn_vars, store_vars, clock, instance, initialized, sessions_created,
                   threads_started, ret, registry_vars, loop_vars>>

\* self._session = bp.Session(...); self._session.startAsync(): the object's
\* session is a new one, with no subscription yet
InitSession(t) ==
    /\ cpc[t] = "init_session"
    /\ sessions_created' = sessions_created + 1
    /\ feed_live' = {}
    /\ SetCpc(t, "init_fields")
    /\ UNCHANGED <<writer_vars, spc, conn_vars, store_vars, clock, instance, initialized, threads_started,
                   ret, subscription_list, active_instruments,
                   active_subscriptions, feed_log, loop_vars>>

\* self.db = ... self.cache_update_interval = 60
InitFields(t) ==
    /\ cpc[t] = "init_fields"
    /\ NewDatabase("handler")
    /\ active_subscriptions' = <<>>
    /\ stop_event' = FALSE
    /\ job_cache' = <<>>
    /\ last_cache_update' = 0
    /\ SetCpc(t, "init_thread")
    /\ UNCHANGED <<writer_vars, spc, store_vars, clock, instance, initialized, sessions_created,
                   threads_started, ret, subscription_list, active_instruments,
                   feed_live, feed_log, pc, current_time, todo>>

\* self.subscription_thread = threading.Thread(...); .start().  The model
\* follows the steps of the first polling thread started; a further thread is
\* counted in threads_started.
InitThread(t) ==
    /\ cpc[t] = "init_thread"
    /\ threads_started' = threads_started + 1
    /\ pc' = IF pc = "idle" THEN "loop" ELSE pc
    /\ SetCpc(t, "init_done")
    /\ UNCHANGED <<writer_vars, spc, conn_vars, store_vars, clock, instance, initialized, sessions_created,
                   ret, registry_vars, job_cache, last_cache_update, stop_event,
                   current_time, todo>>

\* self._initialized = True
InitDone(t) ==
    /\ cpc[t] = "init_done"
    /\ initialized' = TRUE
    /\ SetCpc(t, "returned")
    /\ UNCHANGED <<writer_vars, spc, conn_vars, store_vars, clock, instance, sessions_created,
                   threads_started, ret, registry_vars, loop_vars>>

Construct ==
    \E t \in Callers :
        \/ CallConstructor(t)
        \/ New(t)
        \/ InitCheck(t)
        \/ InitReset(t)
        \/ InitConfig(t)
        \/ InitSession(t)
        \/ InitFields(t)
        \/ InitThread(t)
        \/ InitDone(t)

\* the store of the scenario: job 1 on X, Y and job 2 on Y, Z, windows overlapping
ScenarioStore ==
    (1 :> JobRow(ClockStart, ClockStart + 60, <<"X", "Y">>, <<"BID">>))
    @@ (2 :> JobRow(ClockStart + 30, ClockStart + 90, <<"Y", "Z">>, <<"BID">>))

\* The process before any handler exists, started late in the period followed,
\* the store holding the scenario's jobs as app.insert_data left them (rows
\* committed, update_flag set).
InitNew ==
    /\ jobs = ScenarioStore
    /\ next_job_id = 3
    /\ update_flag = 1
    /\ clock = ClockStart + Horizon - 2 * SleepSeconds
    /\ instance = 0
    /\ initialized = FALSE
    /\ sessions_created = 0
    /\ threads_started = 0
    /\ cpc = [t \in Callers |-> "idle"]
    /\ ret = [t \in Callers |-> 0]
    /\ ObjectFields
    /\ pc = "idle"
    /\ current_time = 0
    /\ todo = <<>>
    /\ feed_live = {}
    /\ feed_log = <<>>
    /\ spc = "idle"
    /\ NoConnections
    /\ WriterIdle

NextNew ==
    \/ Construct
    \/ Loop

SpecNew == InitNew /\ [][NextNew]_vars

----------------------------------------------------------------------------
\* SubscriptionHandler.stop(), called by the main thread on the constructed
\* handler.

\* the call and self.stop_event.set(); a call is followed while the period
\* leaves room for the sleep the loop may still be in
StopCall ==
    /\ spc = "idle"
    /\ initialized
    /\ clock + SleepSeconds <= ClockStart + Horizon
    /\ stop_event' = TRUE
    /\ spc' = "join"
    /\ UNCHANGED <<writer_vars, store_vars, clock, ctor_vars, registry_vars, conn_vars,
                   job_cache, last_cache_update, pc, current_time, todo>>

\* the thread never found alive, so that join() is skipped
ThreadNeverAlive == FALSE

\* self.subscription_thread.is_alive(): the thread is alive until
\* manage_subscriptions returns or an exception leaves it
ThreadAlive == pc \notin {"idle", "exited", "crashed"}

\* if self.subscription_thread.is_alive(): self.subscription_thread.join()
StopJoin ==
    /\ spc = "join"
    /\ ~ThreadAlive
    /\ spc' = "close"
    /\ UNCHANGED <<writer_vars, store_vars, clock, ctor_vars, registry_vars, conn_vars,
                   loop_vars>>

\* self.db.close()
StopClose ==
    /\ spc = "close"
    /\ close("handler", "main")
    /\ spc' = "session"
    /\ UNCHANGED <<writer_vars, store_vars, clock, ctor_vars, registry_vars, loop_vars>>

\* self._session.stopAsync(): the session's subscriptions end with it
StopSession ==
    /\ spc = "session"
    /\ feed_live' = {}
    /\ spc' = "returned"
    /\ UNCHANGED <<writer_vars, store_vars, clock, ctor_vars, subscription_list,
                   active_instruments, active_subscriptions, feed_log,
                   conn_vars, loop_vars>>

StopReturn ==
    \/ StopJoin
    \/ StopClose
    \/ StopSession

\* The constructed handler with the scenario's jobs stored and the flag set,
\* and a main thread that may call stop().
InitStop ==
    /\ jobs = ScenarioStore
    /\ next_job_id = 3
    /\ update_flag = 1
    /\ clock = ClockStart
    /\ instance = 1
    /\ initialized = TRUE
    /\ sessions_created = 1
    /\ threads_started = 1
    /\ cpc = [t \in Callers |-> "idle"]
    /\ ret = [t \in Callers |-> IF t = 1 THEN 1 ELSE 0]
    /\ ObjectFields
    /\ pc = "loop"
    /\ current_time = 0
    /\ todo = <<>>
    /\ feed_live = {}
    /\ feed_log = <<>>
    /\ spc = "idle"
    /\ NoConnections
    /\ WriterIdle

NextStop ==
    \/ Loop
    \/ StopCall
    \/ StopReturn

\* both threads are scheduled: the polling thread takes its steps, and a
\* started stop() takes its own
SpecStop ==
    InitStop /\ [][NextStop]_vars /\ WF_vars(Loop) /\ WF_vars(StopReturn)

----------------------------------------------------------------------------
\* The Database class on its own: any thread runs a query or a command on
\* any Database object (reading its conn property), or calls its close().

\* _execute_query / _execute_command called by thread t
DbUse(db, t) ==
    /\ HasConn(db, t) \/ local_conn[LocalSlot(db, t)].made < MaxConns
    /\ UseConn(db, t)
    /\ UNCHANGED <<writer_vars, store_vars, clock, ctor_vars, registry_vars, loop_vars, spc>>

\* close() called by thread t
DbClose(db, t) ==
    /\ close(db, t)
    /\ UNCHANGED <<writer_vars, store_vars, clock, ctor_vars, registry_vars, loop_vars, spc>>

NextConn ==
    \E db \in Databases, t \in Threads :
        \/ DbUse(db, t)
        \/ DbClose(db, t)

SpecConn == Init /\ [][NextConn]_vars

----------------------------------------------------------------------------
\* The store taken alone: Database.insert_data called with any window length
\* in seconds, and query_active_jobs called at any instant.

\* the instants a query is made at
QueryTimes == {ClockStart + 30 * k : k \in 0 .. (Horizon \div 10)}

\* db.insert_data(name, start, end, instruments, fields), committed
StoreInsertData ==
    /\ next_job_id <= MaxJobs
    /\ InsertData(LengthsInSeconds)

\* jobs = db.query_active_jobs(t), kept as update_job_cache keeps it
StoreQuery ==
    /\ \E t \in QueryTimes : update_job_cache(t)
    /\ UseConn("handler", "loop")
    /\ UNCHANGED <<writer_vars, store_vars, clock, ctor_vars, registry_vars, spc,
                   stop_event, pc, current_time, todo>>

NextStore ==
    \/ StoreInsertData
    \/ StoreQuery

SpecStore == Init /\ [][NextStore]_vars

----------------------------------------------------------------------------
\* The registry taken alone: start_subscription and stop_subscription called
\* as manage_subscriptions calls them, on jobs whose instrument list or field
\* list may be empty (rows of query_active_jobs with a NULL column) and whose
\* field lists differ.

InstrumentInputs == {<<>>, <<"X">>, <<"X", "Y">>}

FieldInputs == {<<>>, <<"BID">>, <<"ASK">>}

\* the job dicts handed to start_subscription
JobInputs ==
    {[id |-> id,
      job_startdatetime |-> ClockStart,
      job_enddatetime |-> ClockStart + SecondsPerMinute,
      instruments |-> instruments,
      fields |-> fields] :
        id \in JobIds, instruments \in InstrumentInputs, fields \in FieldInputs}

\* if job_id not in self.active_subscriptions: self.start_subscription(job)
CallStart ==
    /\ Len(feed_log) < MaxCalls
    /\ \E job \in JobInputs, feed_ok \in BOOLEAN :
          /\ NeedsStart(Registry, job.id)
          /\ SetRegistry(start_subscription(Registry, job, feed_ok))
    /\ UNCHANGED <<writer_vars, store_vars, clock, ctor_vars, loop_vars, spc, conn_vars>>

\* self.stop_subscription(job_id)
CallStop ==
    /\ Len(feed_log) < MaxCalls
    /\ \E job_id \in JobIds, feed_ok \in BOOLEAN :
          SetRegistry(stop_subscription(Registry, job_id, feed_ok))
    /\ UNCHANGED <<writer_vars, store_vars, clock, ctor_vars, loop_vars, spc, conn_vars>>

NextRegistry ==
    \/ CallStart
    \/ CallStop

SpecRegistry == Init /\ [][NextRegistry]_vars

----------------------------------------------------------------------------
\* The writer statement by statement: app.insert_data and
\* app.delete_selected_jobs run the functions of Database one after the other
\* on the writer thread's connection.  A function that goes through
\* _execute_command commits; one that only runs cursor.execute leaves its
\* change uncommitted, visible to the writer's connection alone.

\* every function of Database committing its own change
CommitsAlways(function) == TRUE

\* self.conn.commit() is in _execute_command, used by set_update_flag only
Commits(function) == function = "set_update_flag"

\* the committed rows after a function of Database has run on the writer's
\* connection and left rows as that connection's view
Committed(function, rows) == IF Commits(function) THEN rows ELSE jobs

\* db.insert_data: insert_job, which returns cursor.lastrowid
WriterInsertJob ==
    /\ writer.pc = "idle"
    /\ next_job_id <= MaxJobs
    /\ \E job_startdatetime \in StartChoices, length \in LengthChoices,
          instruments \in InstrumentChoices, fields \in FieldChoices :
          /\ job_startdatetime >= clock
          /\ length > 0
          /\ txn_jobs' = MapSet(txn_jobs, next_job_id,
                                JobRow(job_startdatetime, job_startdatetime + length,
                                       <<>>, <<>>))
          /\ writer' = [pc |-> "insert_instruments", job_id |-> next_job_id,
                        instruments |-> instruments, fields |-> fields]
    /\ next_job_id' = next_job_id + 1
    /\ jobs' = Committed("insert_job", txn_jobs')
    /\ UseConn("app", "writer")
    /\ UNCHANGED <<update_flag, spc, clock, ctor_vars, registry_vars, loop_vars>>

\* db.insert_data: insert_instruments(instruments, job_id)
WriterInsertInstruments ==
    /\ writer.pc = "insert_instruments"
    /\ txn_jobs' = [txn_jobs EXCEPT ![writer.job_id].instruments = writer.instruments]
    /\ writer' = [writer EXCEPT !.pc = "insert_fields"]
    /\ jobs' = Committed("insert_instruments", txn_jobs')
    /\ UseConn("app", "writer")
    /\ UNCHANGED <<next_job_id, update_flag, spc, clock, ctor_vars, registry_vars,
                   loop_vars>>

\* db.insert_data: insert_fields(fields, job_id)
WriterInsertFields ==
    /\ writer.pc = "insert_fields"
    /\ txn_jobs' = [txn_jobs EXCEPT ![writer.job_id].fields = writer.fields]
    /\ writer' = [pc |-> "set_update_flag"]
    /\ jobs' = Committed("insert_fields", txn_jobs')
    /\ UseConn("app", "writer")
    /\ UNCHANGED <<next_job_id, update_flag, spc, clock, ctor_vars, registry_vars,
                   loop_vars>>

\* app.delete_selected_jobs: for job_id in job_ids: db.delete_job(job_id)
WriterDeleteJobs ==
    /\ writer.pc = "idle"
    /\ \E job_ids \in SUBSET (DOMAIN txn_jobs) :
          /\ job_ids # {}
          /\ txn_jobs' = [id \in DOMAIN txn_jobs \ job_ids |-> txn_jobs[id]]
    /\ writer' = [pc |-> "set_update_flag"]
    /\ jobs' = Committed("delete_job", txn_jobs')
    /\ UseConn("app", "writer")
    /\ UNCHANGED <<next_job_id, update_flag, spc, clock, ctor_vars, registry_vars,
                   loop_vars>>

\* db.set_update_flag(): the UPDATE of metadata and the commit
WriterSetFlag ==
    /\ writer.pc = "set_update_flag"
    /\ update_flag' = 1
    /\ jobs' = Committed("set_update_flag", txn_jobs)
    /\ writer' = [pc |-> "idle"]
    /\ UseConn("app", "writer")
    /\ UNCHANGED <<next_job_id, txn_jobs, spc, clock, ctor_vars, registry_vars,
                   loop_vars>>

Writer ==
    \/ WriterInsertJob
    \/ WriterInsertInstruments
    \/ WriterInsertFields
    \/ WriterDeleteJobs
    \/ WriterSetFlag

NextWriter ==
    \/ Writer
    \/ Loop

SpecWriter == Init /\ [][NextWriter]_vars

----------------------------------------------------------------------------
\* The reconcile steps of one tick as a whole (manage_subscriptions, the two
\* for-loops), every feed call returning.

RECURSIVE ActivateAll(_, _, _)
ActivateAll(r, items, i) ==
    IF i > Len(items) THEN r
    ELSE ActivateAll(IF NeedsStart(r, items[i][1])
                     THEN start_subscription(r, items[i][2], TRUE)
                     ELSE r,
                     items, i + 1)

RECURSIVE DeactivateAll(_, _, _, _)
DeactivateAll(r, keys, cache, i) ==
    IF i > Len(keys) THEN r
    ELSE DeactivateAll(IF NeedsStop(cache, keys[i])
                       THEN stop_subscription(r, keys[i], TRUE)
                       ELSE r,
                       keys, cache, i + 1)

Reconcile(r, cache) ==
    LET r1 == ActivateAll(r, cache, 1)
    IN DeactivateAll(r1, KeyList(r1.active_subscriptions), cache, 1)

----------------------------------------------------------------------------
\* Vocabulary of the properties

\* instruments with a live subscription on the feed session
LiveInstruments == {c.instrument : c \in feed_live}

\* instruments of the jobs in JobCache
CachedInstruments ==
    UNION {Range(job_cache[i][2].instruments) : i \in DOMAIN job_cache}

\* instruments appearing in some job's entry of active_subscriptions
ReferencedInstruments ==
    UNION {Range(active_subscriptions[i][2]) : i \in DOMAIN active_subscriptions}

\* number of calls of kind op in the log whose batch names instrument x
CallsWith(op, x) ==
    Cardinality({i \in DOMAIN feed_log :
                    feed_log[i].op = op /\ x \in Topics(feed_log[i].batch)})

LastCall == feed_log[Len(feed_log)]

AllInstruments == UNION {Range(c) : c \in InstrumentChoices}

----------------------------------------------------------------------------
\* C1: after every completed tick in which no call raised, the instruments
\* with a live feed subscription are exactly the instruments of the jobs in
\* JobCache.
C1_LiveEqualsCached ==
    pc = "sleep" => LiveInstruments = CachedInstruments

\* C2: dedup.  While no call has raised, every instrument referenced by an
\* active job has been submitted in exactly one more subscribe call than
\* unsubscribe calls (one subscribe for all the jobs sharing it, stopping one
\* of them leaves it subscribed), and an instrument no job references has as
\* many unsubscribe calls as subscribe calls (it was unsubscribed exactly once).
C2_Dedup ==
    pc # "crashed" =>
        \A x \in AllInstruments :
            CallsWith("subscribe", x) =
                CallsWith("unsubscribe", x)
                + (IF x \in ReferencedInstruments THEN 1 ELSE 0)

\* C3: reference counting.  The unsubscribe batch stop_subscription(A) hands
\* to the feed names no instrument present in the active_subscriptions entry
\* of another job B # A.
C3_RefCount ==
    [][(pc = "deactivate" /\ todo # <<>> /\ feed_log' # feed_log) =>
          \A i \in DOMAIN active_subscriptions :
              active_subscriptions[i][1] # Head(todo)[1] =>
                  Topics(feed_log'[Len(feed_log')].batch)
                      \cap Range(active_subscriptions[i][2]) = {}]_vars

\* C3 witness: job a has been stopped with an unsubscribe call for tokens it
\* minted, while job b, still active, shares an instrument with a.
C3_Witness ==
    \E a \in DOMAIN jobs, b \in Keys(active_subscriptions) :
        /\ a # b
        /\ a \notin Keys(active_subscriptions)
        /\ feed_log # <<>>
        /\ LastCall.op = "unsubscribe"
        /\ LastCall.ok
        /\ \A c \in CorrelationIds(LastCall.batch) : c.jobid = a
        /\ Range(jobs[a].instruments) \cap Range(Get(active_subscriptions, b)) # {}

\* C4: registry invariant.  An instrument is a key of _active_instruments iff
\* it appears in the active_subscriptions entry of at least one job, in every
\* state between two operations, whether they returned or raised.
C4_RegistryInvariant ==
    DOMAIN active_instruments = ReferencedInstruments

\* C5: a subscribe call issued by start_subscription carries exactly the
\* instruments the call newly added to _active_instruments, and a call that
\* added none issues no feed call.
C5_SubscribeBatch ==
    [][(pc = "activate" /\ feed_log' # feed_log) =>
          /\ DOMAIN active_instruments' # DOMAIN active_instruments
          /\ Topics(feed_log'[Len(feed_log')].batch) =
                 DOMAIN active_instruments' \ DOMAIN active_instruments]_vars

\* the stored jobs whose window holds now: start <= now < start + duration,
\* the duration being the stored minutes in seconds
JobsInWindow(now) ==
    {j \in DOMAIN jobs :
        /\ jobs[j].job_startdatetime <= now
        /\ now < jobs[j].job_startdatetime + jobs[j].duration * SecondsPerMinute}

\* the cache holds exactly the jobs of ids, each with its stored attributes
CacheIs(cache, ids) ==
    /\ Keys(cache) = ids
    /\ Len(cache) = Cardinality(ids)
    /\ \A i \in DOMAIN cache :
          LET id == cache[i][1]
              job == cache[i][2]
          IN /\ job.id = id
             /\ job.job_startdatetime = jobs[id].job_startdatetime
             /\ Range(job.instruments) = Range(jobs[id].instruments)
             /\ Range(job.fields) = Range(jobs[id].fields)

\* C6: window correctness of refresh.  After update_job_cache(now) JobCache
\* holds exactly the stored jobs with start <= now < start + duration (no
\* entry of the previous cache survives otherwise) and last_cache_update = now.
C6_RefreshWindow ==
    [][/\ pc = "refresh" /\ pc' # pc =>
              CacheIs(job_cache', JobsInWindow(clock)) /\ last_cache_update' = clock
       /\ (pc = "periodic" /\ pc' # pc /\ last_cache_update' # last_cache_update) =>
              /\ CacheIs(job_cache', JobsInWindow(current_time))
              /\ last_cache_update' = current_time]_vars

\* C6 witness: a refresh at the very instant a job's window ends has dropped
\* that job, which the previous cache held (it is still subscribed).
C6_Witness ==
    /\ pc = "clear"
    /\ \E j \in DOMAIN jobs :
          /\ RowEnd(jobs[j]) = last_cache_update
          /\ j \in Keys(active_subscriptions)
          /\ j \notin Keys(job_cache)

\* C7: idempotent tick.  Once a tick has completed, running the reconcile
\* steps again on the unchanged JobCache issues no subscribe and no
\* unsubscribe call and leaves the registry as it is.
C7_IdempotentTick ==
    pc = "sleep" => Reconcile(Registry, job_cache) = Registry

\* C7 witness: a tick has completed with a job cached and subscribed, and an
\* earlier job already stopped.
C7_Witness ==
    /\ pc = "sleep"
    /\ job_cache # <<>>
    /\ Keys(active_subscriptions) = Keys(job_cache)
    /\ \E i \in DOMAIN feed_log : feed_log[i].op = "unsubscribe"

\* the calls of the log as (operation, set of instruments)
LogTopics ==
    [i \in DOMAIN feed_log |->
        [op |-> feed_log[i].op, topics |-> Topics(feed_log[i].batch)]]

\* the feed calls of the overlapping-window scenario
ScenarioCalls ==
    << [op |-> "subscribe", topics |-> {"X", "Y"}],
       [op |-> "subscribe", topics |-> {"Z"}],
       [op |-> "unsubscribe", topics |-> {"X"}],
       [op |-> "unsubscribe", topics |-> {"Y", "Z"}] >>

IsPrefix(s, t) == Len(s) <= Len(t) /\ s = SubSeq(t, 1, Len(s))

\* C8: overlapping windows.  With job A on {X, Y} and job B on {Y, Z} stored,
\* the feed calls of the loop are, in order, subscribe {X, Y}, subscribe {Z},
\* unsubscribe {X}, unsubscribe {Y, Z}, and no other call.
C8_OverlapScenario ==
    (jobs = ScenarioStore /\ next_job_id = 3 /\ pc # "crashed") =>
        IsPrefix(LogTopics, ScenarioCalls)

\* C9: singleton guard.  When the concurrent constructor calls have all
\* returned, one handler object exists, one feed session was created and one
\* polling thread was started.
C9_SingletonGuard ==
    (\A t \in Callers : cpc[t] = "returned") =>
        /\ instance = 1
        /\ \A t \in Callers : ret[t] = instance
        /\ sessions_created = 1
        /\ threads_started = 1

\* C10: idempotent re-entry.  Once a construction has completed, the steps of
\* a constructor call (__new__, then the guard of __init__) return the same
\* object without raising and leave the session, the polling thread,
\* job_cache, the registry and last_cache_update as they were.
C10_IdempotentReentry ==
    [][\A t \in Callers :
          (initialized /\ cpc[t] \in {"new", "init_check"} /\ cpc'[t] # cpc[t]) =>
              /\ cpc'[t] = IF cpc[t] = "new" THEN "init_check" ELSE "returned"
              /\ ret'[t] = instance
              /\ UNCHANGED <<instance, initialized, sessions_created,
                             threads_started, registry_vars, job_cache,
                             last_cache_update>>]_vars

\* C10 witness: every caller has returned the one object, a single session and
\* a single thread exist (a later call skipped the initialization), and the
\* polling thread holds a job in its cache and registry.
C10_Witness ==
    /\ initialized
    /\ \A t \in Callers : cpc[t] = "returned" /\ ret[t] = instance
    /\ sessions_created = 1
    /\ threads_started = 1
    /\ job_cache # <<>>
    /\ active_subscriptions # <<>>

\* C11: no lost dirty-flag signal.  Whenever the reconciler clears the flag,
\* the cache it refreshed just before already holds every change the writer
\* committed: JobCache is the answer of the store, as it stands at the clear,
\* to the active-job query at last_cache_update.
C11_NoLostSignal ==
    [][(pc = "clear" /\ pc' # pc) =>
          CacheIs(job_cache, JobsInWindow(last_cache_update))]_vars

\* The running system with its polling thread scheduled: a thread that can
\* take a step of manage_subscriptions eventually takes it.
SpecLive == Init /\ [][Next]_vars /\ WF_vars(Loop)

\* JobCache agrees with the store's present answer to the query of the last
\* refresh: no committed change to that answer is missing from the cache
CacheReflectsStore == CacheIs(job_cache, JobsInWindow(last_cache_update))

\* the last refresh is early enough for the next periodic one to fall within
\* the period followed
PeriodicWithinHorizon ==
    last_cache_update + cache_update_interval + SleepSeconds <= ClockStart + Horizon

\* C12: eventual observation without the flag.  While the loop keeps running,
\* a cache that misses a committed change comes to reflect the store again,
\* whether or not the flag is seen set: the periodic refresh repairs it.
C12_EventuallyObserved ==
    (~CacheReflectsStore /\ PeriodicWithinHorizon)
        ~> (CacheReflectsStore \/ pc \in {"crashed", "exited"})

\* C12 witness: the flag is clear, the cache misses a committed change, and
\* the tick is at the periodic test with more than cache_update_interval
\* elapsed since the last refresh.
C12_Witness ==
    /\ pc = "periodic"
    /\ update_flag = 0
    /\ ~CacheReflectsStore
    /\ RefreshDue(current_time, last_cache_update)

\* the jobs the two for-loops of a tick have to process: cached and not yet
\* started, or started and no longer cached
PendingJobs ==
    (Keys(job_cache) \ Keys(active_subscriptions))
        \cup (Keys(active_subscriptions) \ Keys(job_cache))

\* C13: error isolation within a tick.  When start_subscription or
\* stop_subscription has raised for one job, the tick has still processed
\* every other job needing activation or deactivation: at most the failing
\* job is left unreconciled.
C13_ErrorIsolation ==
    pc = "crashed" => Cardinality(PendingJobs) <= 1

\* C14: the loop survives failures.  Unless stop was signalled, the polling
\* thread is still inside its while-loop after a call of a tick has raised
\* (so that a job that failed to activate is tried again on a later tick).
C14_LoopSurvives ==
    (feed_log # <<>> /\ ~LastCall.ok /\ ~stop_event) =>
        pc \notin {"crashed", "exited"}

\* C15: cooperative stop.  Once the stop signal is set the loop starts no new
\* tick (the test at the tick boundary leaves the loop), a tick already
\* started is not cut short, and the loop thread ends and stop() returns.
C15_CooperativeStop ==
    /\ [][(stop_event /\ pc = "loop" /\ pc' # pc) => pc' = "exited"]_vars
    /\ [][(pc # "loop" /\ pc' # pc) => pc' # "exited"]_vars
    /\ stop_event ~> (~ThreadAlive /\ spc = "returned")
    /\ (stop_event /\ pc # "crashed") ~> (pc = "exited" \/ pc = "crashed")

\* C15 witness: stop() has returned and the loop thread has left its loop
\* by the test of the signal, after ticks that subscribed jobs.
C15_Witness ==
    /\ spc = "returned"
    /\ pc = "exited"
    /\ active_subscriptions # <<>>

\* C16: stop() releases the store connection.  After stop() has returned, no
\* connection opened by the loop thread is still open.
C16_StoreReleased ==
    spc = "returned" =>
        \A h \in DOMAIN connections :
            connections[h].creator = "loop" => ~connections[h].open

\* C17: thread-local store connections.  Two distinct threads using one
\* Database object hold distinct connection handles, a handle is used only by
\* the thread that created it, and a thread's handle changes only when that
\* thread's connection is closed.
C17_ThreadLocalConnections ==
    /\ [](\A db \in Databases, t1, t2 \in Threads :
             (t1 # t2 /\ HasConn(db, t1) /\ HasConn(db, t2)) =>
                 ConnOf(db, t1) # ConnOf(db, t2))
    /\ [](\A h \in DOMAIN connections :
             connections[h].users = {connections[h].creator})
    /\ [][\A db \in Databases, t \in Threads :
             (HasConn(db, t) /\ ConnOf(db, t)' # ConnOf(db, t)) =>
                 /\ ~HasConn(db, t)'
                 /\ ~connections'[ConnOf(db, t)].open]_vars

\* C17 witness: on one Database object two threads hold open connections at
\* the same time, one of them obtained after that thread closed its first.
C17_Witness ==
    \E db \in Databases, t1, t2 \in Threads :
        /\ t1 # t2
        /\ HasConn(db, t1)
        /\ HasConn(db, t2)
        /\ local_conn[LocalSlot(db, t1)].made > 1
        /\ connections[ConnOf(db, t1)].open
        /\ connections[ConnOf(db, t2)].open

\* instrument x is in the entry of an active job that is leaving JobCache
HeldByLeavingJob(x) ==
    \E i \in DOMAIN active_subscriptions :
        /\ active_subscriptions[i][1] \notin Keys(job_cache)
        /\ x \in Range(active_subscriptions[i][2])

\* instrument x is in the entry of an active job, other than id, that JobCache
\* holds
HeldByStayingJob(x, id) ==
    \E i \in DOMAIN active_subscriptions :
        /\ active_subscriptions[i][1] # id
        /\ active_subscriptions[i][1] \in Keys(job_cache)
        /\ x \in Range(active_subscriptions[i][2])

\* the activation half of C18: starting the entering job does not submit the
\* instrument held by the leaving job again
C18_NotResubscribed ==
    [][(pc = "activate" /\ todo # <<>> /\ feed_log' # feed_log
            /\ feed_log'[Len(feed_log')].ok) =>
          \A x \in Range(Head(todo)[2].instruments) :
              HeldByLeavingJob(x) =>
                  x \notin Topics(feed_log'[Len(feed_log')].batch)]_vars

\* the deactivation half of C18: stopping the leaving job keeps the instrument
\* in _active_instruments and out of the unsubscribe call
C18_NotUnsubscribed ==
    [][(pc = "deactivate" /\ todo # <<>> /\ NeedsStop(job_cache, Head(todo)[1])) =>
          \A x \in Range(Head(todo)[2]) :
              HeldByStayingJob(x, Head(todo)[1]) =>
                  /\ x \in DOMAIN active_instruments'
                  /\ feed_log' # feed_log =>
                         x \notin Topics(feed_log'[Len(feed_log')].batch)]_vars

\* C18: handover within one tick.  When in one tick job B enters JobCache and
\* job A leaves it and both reference instrument X, the activation of B comes
\* first and X is neither submitted in a subscribe call again nor
\* unsubscribed: it stays in _active_instruments throughout.
C18_Handover == C18_NotResubscribed /\ C18_NotUnsubscribed

\* the running tick has refreshed the cache in check_for_updates: only a
\* refresh of this tick can have stamped the tick's own time
FlagRefreshedThisTick == last_cache_update >= current_time

\* C19: at most one refresh per tick.  When check_for_updates has refreshed
\* the cache in a tick, the periodic test of that tick does not refresh it a
\* second time.
C19_OneRefreshPerTick ==
    [][(pc = "periodic" /\ FlagRefreshedThisTick /\ pc' # pc) =>
          UNCHANGED <<job_cache, last_cache_update>>]_vars

\* C19 witness: the tick is past its periodic test, the flag is clear and the
\* cache, stamped with the tick's time, misses a change committed between
\* the flag's refresh and its clearing: the periodic test has not refreshed.
C19_Witness ==
    /\ pc = "activate"
    /\ update_flag = 0
    /\ last_cache_update = current_time
    /\ ~CacheReflectsStore

\* C20: the registry converges in one tick.  At the end of every tick in
\* which no call raised, the job ids that are keys of active_subscriptions
\* are exactly the job ids in JobCache.
C20_RegistryConverges ==
    pc = "sleep" => Keys(active_subscriptions) = Keys(job_cache)

\* C20 witness: a tick has ended with a cached job active while a stored job
\* that had been subscribed is neither cached nor active any more.
C20_Witness ==
    /\ pc = "sleep"
    /\ \E a \in DOMAIN jobs, b \in Keys(job_cache) :
          /\ a \notin Keys(job_cache)
          /\ a \notin Keys(active_subscriptions)
          /\ b \in Keys(active_subscriptions)
          /\ \E i \in DOMAIN feed_log :
                /\ feed_log[i].op = "subscribe"
                /\ \E c \in CorrelationIds(feed_log[i].batch) : c.jobid = a

\* the instants at which a window bound may fall
Instants == ClockStart .. (ClockStart + 30 + 120)

\* C21: duration and end time are equivalent.  For every job stored by
\* insert_data(name, start, end, ...) with end > start, query_active_jobs(now)
\* returns the job exactly when start <= now < end, and reports end as its
\* job_enddatetime, whatever the number of seconds end - start.
C21_DurationEquivalent ==
    [][\A start \in StartChoices, length \in LengthsInSeconds :
          (/\ next_job_id' = next_job_id + 1
           /\ \E instruments \in InstrumentChoices, fields \in FieldChoices :
                 jobs' = MapSet(jobs, next_job_id,
                                JobRow(start, start + length, instruments, fields)))
          => \A now \in Instants :
                LET result == query_active_jobs(jobs', now)
                IN /\ (next_job_id \in DOMAIN result)
                          <=> (start <= now /\ now < start + length)
                   /\ next_job_id \in DOMAIN result =>
                          result[next_job_id].job_enddatetime = start + length]_vars

\* C22: start_subscription on a job whose instrument list or field list is
\* empty is a no-op: no feed call, nothing added to _active_instruments, no
\* error.
C22_EmptyIsNoOp ==
    \A job \in JobInputs, feed_ok \in BOOLEAN :
        (NeedsStart(Registry, job.id)
            /\ (job.instruments = <<>> \/ job.fields = <<>>)) =>
            LET r == start_subscription(Registry, job, feed_ok)
            IN /\ r.feed_log = feed_log
               /\ r.active_instruments = active_instruments
               /\ ~r.raised

\* C23: state after a failed activation.  When the feed subscribe call raises
\* inside start_subscription(job), the error reaches the caller, the
\* instruments the call recorded in _active_instruments stay there, and the
\* job's entry is recorded in active_subscriptions all the same.
C23_FailedActivationState ==
    \A job \in JobInputs :
        (NeedsStart(Registry, job.id) /\ job.instruments # <<>>) =>
            LET r == start_subscription(Registry, job, FALSE)
            IN /\ r.raised
               /\ Range(job.instruments) \subseteq DOMAIN r.active_instruments
               /\ job.id \in Keys(r.active_subscriptions)
               /\ Get(r.active_subscriptions, job.id) = job.instruments

\* C24: a failed deactivation can be retried.  After the feed unsubscribe call
\* has raised inside stop_subscription(job_id), a later stop_subscription for
\* a job still recorded (the failed one among them) completes without raising
\* and removes the job's entry from active_subscriptions.
C24_StopRetry ==
    (feed_log # <<>> /\ LastCall.op = "unsubscribe" /\ ~LastCall.ok) =>
        \A job_id \in Keys(active_subscriptions) :
            LET r == stop_subscription(Registry, job_id, TRUE)
            IN /\ ~r.raised
               /\ job_id \notin Keys(r.active_subscriptions)

\* the entries of a subscription list for one topic
EntriesFor(list, x) == SelectSeq(list, LAMBDA e : e.topic = x)

\* C25: field set of a shared instrument.  The subscription of an instrument
\* is created with the fields and the token of the job that first brings it
\* in, and starting another job that references the instrument changes
\* neither its token nor the fields it is listed and submitted with.
C25_FirstJobFields ==
    \A job \in JobInputs, feed_ok \in BOOLEAN :
        NeedsStart(Registry, job.id) =>
            LET r == start_subscription(Registry, job, feed_ok)
            IN \A x \in Range(job.instruments) :
                  IF x \in DOMAIN active_instruments
                  THEN /\ r.active_instruments[x] = active_instruments[x]
                       /\ EntriesFor(r.subscription_list, x)
                              = EntriesFor(subscription_list, x)
                       /\ EntriesFor(r.feed_log[Len(r.feed_log)].batch, x)
                              = EntriesFor(subscription_list, x)
                  ELSE LET mine == EntriesFor(r.subscription_list, x)
                       IN /\ r.active_instruments[x] = SubscriptionItem(x, job.id)
                          /\ mine[Len(mine)] =
                                 ListEntry(x, job.fields, SubscriptionItem(x, job.id))

\* C25 witness: jobs a and b are both active and both reference X; X is listed
\* with the fields and token of a, while Y, brought in by b, is listed with
\* the other fields b asked for.
C25_Witness ==
    \E a, b \in Keys(active_subscriptions) :
        /\ a # b
        /\ "X" \in Range(Get(active_subscriptions, a))
        /\ "X" \in Range(Get(active_subscriptions, b))
        /\ active_instruments["X"] = SubscriptionItem("X", a)
        /\ \E i, j \in DOMAIN subscription_list :
              /\ subscription_list[i] =
                     ListEntry("X", <<"BID">>, SubscriptionItem("X", a))
              /\ subscription_list[j] =
                     ListEntry("Y", <<"ASK">>, SubscriptionItem("Y", b))

\* C26: shutdown ordering.  stop() releases the feed session only once the
\* loop thread has left manage_subscriptions, and after stop() has released
\* the session no subscribe or unsubscribe call is issued, whenever stop() is
\* called during a tick.
C26_ShutdownOrdering ==
    /\ [][(spc = "session" /\ spc' = "returned") =>
             pc \in {"exited", "crashed"}]_vars
    /\ [][spc = "returned" => feed_log' = feed_log]_vars

\* C26 witness: stop() has returned with the session released, the loop
\* thread having run a tick with feed calls to its end, slept, and left its
\* loop at the test of the signal.
C26_Witness ==
    /\ spc = "returned"
    /\ pc = "exited"
    /\ feed_live = {}
    /\ feed_log # <<>>
    /\ LastCall.ok
    /\ current_time = clock - SleepSeconds

\* a job row, stored or cached, has its instrument rows and its field rows
Complete(instruments, fields) == instruments # <<>> /\ fields # <<>>

\* C27: the writer's change and the dirty flag become visible atomically.  In
\* every snapshot the reconciler reads, a job created by insert_data is there
\* with its instrument rows and field rows or not at all, and a committed
\* insert or delete becomes visible only together with update_flag set.
C27_AtomicVisibility ==
    /\ [](\A id \in DOMAIN jobs :
             Complete(jobs[id].instruments, jobs[id].fields))
    /\ [](\A i \in DOMAIN job_cache :
             Complete(job_cache[i][2].instruments, job_cache[i][2].fields))
    /\ [][jobs' # jobs => update_flag' = 1]_vars

\* C27 witness: the reconciler has refreshed its cache while the writer's
\* insert was half done (job row written, flag not yet set): the cache does
\* not hold the job although its window holds the instant of the refresh.
C27_Witness ==
    /\ pc = "clear"
    /\ writer.pc \in {"insert_instruments", "insert_fields", "set_update_flag"}
    /\ \E id \in DOMAIN txn_jobs \ DOMAIN jobs :
          /\ InWindow(txn_jobs[id], last_cache_update)
          /\ id \notin Keys(job_cache)

====
